---- MODULE Spec2Model ----
(***************************************************************************)
(* Model of pdf_costructor.py: the amortization engine                     *)
(* (monthly_payment, calculate_amortization_schedule) and the document     *)
(* pipeline (generate_*_pdf, _generate_pdf_with_images,                    *)
(* _add_images_to_pdf), with the 25 x 35 cell grid the images are placed   *)
(* on (generate_grid).  Page lengths are counted in 1/140 mm.  The text of  *)
(* a template is a sequence of pieces, one per character where the         *)
(* replacement list looks at characters.                                   *)
(*                                                                         *)
(* Money is counted in whole cents.  The annual rate is counted in         *)
(* hundredths of a percent (7.86 is 786) and the monthly rate              *)
(* annual/100/12 is kept as an exact fraction <<p, q>>.  Python's          *)
(* round(x, 2) on a float returns the nearest cent.  A value that is a     *)
(* decimal half cent is in general stored in binary a little above or a    *)
(* little below the tie (round(0.005, 2) = 0.01, round(0.015, 2) = 0.01),  *)
(* so at such a tie both neighbours are admitted as outcomes.  When the    *)
(* operands are binary fractions and the half cent is one too (0.125,      *)
(* 0.375, ...) the float is the tie itself and round() goes to the even    *)
(* cent (round(0.125, 2) = 0.12).                                          *)
(***************************************************************************)
EXTENDS Integers, Sequences, FiniteSets, TLC

\* ------------------------------------------------------------------ bounds
MaxAmount == 150
MaxMonths == 5
MaxPages == 3
MaxMissing == 1
MaxBelow == 2
MaxPieces == 7

\* inputs handed to the engine: valid ones, and the invalid ones a caller can pass
Amounts == {-100} \cup (0..MaxAmount)
Terms == (-1)..MaxMonths
AnnualRates == {-12000, 0, 12000, 30000, 60000}

\* worked inputs <<amount, months, annual_rate>>: the 15000.00 / 36 / 7.86 of
\* main's test_data, and 1200.00 over 12 months at rate 0
Examples == {<<1500000, 36, 786>>, <<120000, 12, 0>>}

VARIABLES
    amount,          \* calculate_amortization_schedule: parameter amount (cents)
    months,          \* parameter months
    annual_rate,     \* parameter annual_rate (percent)
    pc,              \* position of the running call
    exc,             \* the exception that left the call, "" when none
    payment,         \* local payment (cents)
    balance,         \* local balance (cents)
    total_interest,  \* local total_interest (cents)
    schedule,        \* local schedule: sequence of row records
    tied,            \* some round() of this run met an exact half cent
    template_name,   \* the document variant, "" for a direct call of the engine
    data,            \* the caller's dict: the values
    data_keys,       \* the caller's dict: the keys it holds
    files,           \* the files on disk: templates and image assets
    image_px,        \* <<width, height>> in pixels of the image files
    stage,           \* the part of the pipeline that is running
    summary,         \* contratto: the totals shown before the table
    html,            \* the text of the template as _generate_pdf_with_images holds it
    today,           \* the date datetime.now() gives, as format_date() writes it
    pdf_pages,       \* len(base_pdf_reader.pages) of pdf_bytes, 0 before rendering
    ip,              \* position in the variant's drawing code
    canvas,          \* overlay_canvas: what is drawn on its current page
    overlay_pages,   \* overlay_canvas: the pages shown so far
    writer_pages,    \* writer: the pages added so far
    fallback,        \* the except branch of _add_images_to_pdf was taken
    result,          \* the document handed to the caller, <<>> when none
    grid_row,        \* generate_grid: row of the loop
    grid_col,        \* generate_grid: col of the loop
    cell_number,     \* generate_grid: the number of the next cell
    grid_html,       \* generate_grid: the cells written so far
    y_top,           \* a y coordinate measured down from the top edge
    y_now,           \* the coordinate after the flips applied to it
    flips            \* how many times the flip has been applied

engineVars == <<amount, months, annual_rate, payment, balance, total_interest, schedule>>
overlayVars == <<pdf_pages, ip, canvas, overlay_pages, writer_pages, fallback, result>>
textVars == <<html, today>>
docVars == <<template_name, data, data_keys, files, image_px, stage, summary, textVars,
             overlayVars>>
gridVars == <<grid_row, grid_col, cell_number, grid_html, y_top, y_now, flips>>
vars == <<engineVars, tied, pc, exc, docVars, gridVars>>

\* ------------------------------------------------------------ arithmetic
Abs(x) == IF x < 0 THEN -x ELSE x

RECURSIVE GCD(_, _)
GCD(a, b) == IF b = 0 THEN a ELSE GCD(b, a % b)

\* sum(item[f] for item in rows)
RECURSIVE SumField(_, _)
SumField(rows, f) ==
    IF rows = <<>> THEN 0 ELSE rows[1][f] + SumField(Tail(rows), f)

\* round(num/den, 2) on a value counted in cents: the set of results round() can give
round2(num, den) ==
    LET n1 == IF den < 0 THEN -num ELSE num
        d1 == Abs(den)
        fl == n1 \div d1
        rem == n1 - fl * d1
    IN  IF 2 * rem < d1 THEN {fl}
        ELSE IF 2 * rem > d1 THEN {fl + 1}
        ELSE {fl, fl + 1}

\* round(num/den, 2) when num/den is what the float holds: operands that are
\* binary fractions, so that a half cent which is a binary fraction is met
\* exactly and goes to the even cent
round2_exact(num, den) ==
    LET n1 == IF den < 0 THEN -num ELSE num
        d1 == Abs(den)
        fl == n1 \div d1
        rem == n1 - fl * d1
    IN  IF 2 * rem = d1 /\ (2 * fl + 1) % 25 = 0
        THEN {IF fl % 2 = 0 THEN fl ELSE fl + 1}
        ELSE round2(num, den)

\* a number of cents that is a binary fraction of the currency unit
IsBinary(cents) == cents % 25 = 0

RECURSIVE IsPow2(_)
IsPow2(n) == n = 1 \/ (n > 1 /\ n % 2 = 0 /\ IsPow2(n \div 2))

\* ---------------------------------------------- naturals beyond 32 bits
\* a natural number as its digits in base 10000, lowest first, <<>> for 0;
\* carries are found by looking back over the digits, not by a digit loop,
\* to keep the nesting of the evaluation shallow
RECURSIVE BigFromInt(_)
BigFromInt(n) == IF n = 0 THEN <<>> ELSE <<n % 10000>> \o BigFromInt(n \div 10000)

\* without leading zero digits
BigNorm(A) ==
    LET nz == {i \in 1..Len(A) : A[i] # 0}
    IN  IF nz = {} THEN <<>>
        ELSE SubSeq(A, 1, CHOOSE i \in nz : \A j \in nz : j <= i)

\* A with zero digits on top up to n digits
BigPad(A, n) == [i \in 1..n |-> IF i <= Len(A) THEN A[i] ELSE 0]

\* the value v, taken before e is
BigThen(v, e) == IF v = v THEN e ELSE e

\* the digits a and b of one length added: a carry enters digit i when some
\* digit below it overflows and every digit between passes a carry on
BigAddDigits(a, b, n) ==
    LET carry(i) == \E k \in 1..(i - 1) :
                       /\ a[k] + b[k] >= 10000
                       /\ \A l \in (k + 1)..(i - 1) : a[l] + b[l] = 9999
    IN  BigNorm([i \in 1..(n + 1) |->
                    ((IF i <= n THEN a[i] + b[i] ELSE 0)
                     + (IF carry(i) THEN 1 ELSE 0)) % 10000])

BigAddPadded(A, B, n) == BigAddDigits(BigNorm(BigPad(A, n)) \o BigPad(<<>>, n - Len(A)),
                                      BigNorm(BigPad(B, n)) \o BigPad(<<>>, n - Len(B)), n)

BigAdd(A, B) == BigAddPadded(A, B, IF Len(A) > Len(B) THEN Len(A) ELSE Len(B))

\* the digits b taken off the digits a of the same length, a >= b: a borrow
\* enters digit i when some digit below it falls short and every digit
\* between is even
BigSubDigits(a, b, n) ==
    LET borrow(i) == \E k \in 1..(i - 1) :
                        /\ a[k] < b[k]
                        /\ \A l \in (k + 1)..(i - 1) : a[l] = b[l]
    IN  BigNorm([i \in 1..n |->
                    (a[i] - b[i] - (IF borrow(i) THEN 1 ELSE 0) + 10000) % 10000])

\* A - B for A >= B
BigSub(A, B) == BigSubDigits(A, BigNorm(B) \o BigPad(<<>>, Len(A) - Len(B)), Len(A))

\* A <= B, for numbers without leading zeros
BigLeq(A, B) ==
    IF Len(A) # Len(B) THEN Len(A) < Len(B)
    ELSE LET df == {i \in 1..Len(A) : A[i] # B[i]}
         IN  IF df = {} THEN TRUE
             ELSE LET top == CHOOSE i \in df : \A j \in df : j <= i
                  IN  A[top] < B[top]

\* A * k for k below 200000: each digit times k has three digits of its own
BigMulSmall(A, k) ==
    BigAdd(BigAdd(BigNorm([i \in 1..Len(A) |-> (A[i] * k) % 10000]),
                  BigNorm(<<0>> \o [i \in 1..Len(A) |-> ((A[i] * k) \div 10000) % 10000])),
           BigNorm(<<0, 0>> \o [i \in 1..Len(A) |-> (A[i] * k) \div 100000000]))

\* A * B, splitting B in halves
RECURSIVE BigMulBy(_, _)
BigMulBy(A, B) ==
    IF Len(B) = 1 THEN BigMulSmall(A, B[1])
    ELSE BigAdd(BigMulBy(A, SubSeq(B, 1, Len(B) \div 2)),
                BigNorm(BigPad(<<>>, Len(B) \div 2)
                        \o BigMulBy(A, SubSeq(B, Len(B) \div 2 + 1, Len(B)))))

BigMul(A, B) ==
    IF A = <<>> \/ B = <<>> THEN <<>>
    ELSE BigMulBy(IF Len(B) > Len(A) THEN B ELSE A, IF Len(B) > Len(A) THEN A ELSE B)

\* b ** n by squaring
RECURSIVE BigPow(_, _)
RECURSIVE BigPowStep(_, _, _)
BigPowStep(b, n, h) == BigThen(h, BigMulSmall(BigMul(h, h), IF n % 2 = 1 THEN b ELSE 1))

BigPow(b, n) == IF n = 0 THEN <<1>> ELSE BigPowStep(b, n, BigPow(b, n \div 2))

\* the largest x in lo..hi with (base + x * step) * D <= N
RECURSIVE BigSearch(_, _, _, _, _, _)
RECURSIVE BigSearchAt(_, _, _, _, _, _, _)
BigSearchAt(N, D, base, step, lo, hi, mid) ==
    IF BigLeq(BigMul(D, BigFromInt(base + mid * step)), N)
    THEN BigSearch(N, D, base, step, mid, hi)
    ELSE BigSearch(N, D, base, step, lo, mid - 1)

BigSearch(N, D, base, step, lo, hi) ==
    IF lo = hi THEN lo
    ELSE BigSearchAt(N, D, base, step, lo, hi, lo + (hi - lo + 1) \div 2)

\* N \div D for a quotient below 2^30, found five bits at a time: the bits
\* found so far, and the weight of the bits to find next
RECURSIVE BigQuotFrom(_, _, _, _)
BigQuotFrom(N, D, found, step) ==
    IF step = 0 THEN found
    ELSE BigQuotFrom(N, D, found + step * BigSearch(N, D, found, step, 0, 31), step \div 32)

BigQuot(N, D) == BigQuotFrom(N, D, 0, 33554432)

\* round(N/D, 2) for naturals N, D > 0 beyond 32 bits and a quotient within them
round2_twice(D, fl, twice) ==
    IF twice = D THEN {fl, fl + 1}
    ELSE IF BigLeq(twice, D) THEN {fl} ELSE {fl + 1}

round2_rem(D, fl, rem) == BigThen(rem, round2_twice(D, fl, BigAdd(rem, rem)))

round2_floor(N, D, fl) == BigThen(fl, round2_rem(D, fl, BigSub(N, BigMul(D, BigFromInt(fl)))))

round2_big(N, D) == BigThen(N, BigThen(D, round2_floor(N, D, BigQuot(N, D))))

\* (annual_rate / 100) / 12 as a fraction in lowest terms <<p, q>>, q > 0
monthly_rate(annual) ==
    LET g == GCD(120000, Abs(annual))
    IN  <<annual \div g, 120000 \div g>>

\* monthly_payment divides by months (r == 0) or by (1+r)**months - 1: ZeroDivisionError
monthly_payment_raises(m) == m = 0

\* the payment that forgets the rate
annuity_flat(a, m, p, q) == round2(a, m)

\* the results with their sign
signed(negative, results) == IF negative THEN {-x : x \in results} ELSE results

\* monthly_payment, r # 0: round(num / den, 2) with
\* num = amount * r * (1+r)**months and den = (1+r)**months - 1, both
\* multiplied by q * (q ** |months|) and taken without their signs
annuity_powers(a, m, p, q, up, dn) ==
    BigThen(up, BigThen(dn,
        signed((a < 0) # (m < 0),
               round2_big(BigMul(BigMul(BigFromInt(Abs(a)), BigFromInt(Abs(p))),
                                 IF m > 0 THEN up ELSE dn),
                          BigMulSmall(BigSub(IF p > 0 THEN up ELSE dn,
                                             IF p > 0 THEN dn ELSE up), q)))))

annuity(a, m, p, q) == annuity_powers(a, m, p, q, BigPow(q + p, Abs(m)), BigPow(q, Abs(m)))

\* a year's interest instead of a month's
interest_of_annual(bal, annual) == round2(bal * annual, 10000)

\* amount / months truncated to cents
monthly_payment_trunc(a, m, annual) ==
    LET r == monthly_rate(annual)
    IN  IF r[1] = 0 THEN {a \div m} ELSE annuity(a, m, r[1], r[2])

\* monthly_payment(amount, months, annual_rate), months # 0: the possible results
monthly_payment(a, m, annual) ==
    LET r == monthly_rate(annual)
    IN  IF r[1] = 0
        THEN (IF IsBinary(a) THEN round2_exact(a, m) ELSE round2(a, m))
        ELSE annuity(a, m, r[1], r[2])

\* interest = round(balance * monthly_rate, 2): the possible results
interest_of(bal, annual) ==
    LET r == monthly_rate(annual)
    IN  IF IsPow2(r[2]) /\ IsBinary(bal)
        THEN round2_exact(bal * r[1], r[2]) ELSE round2(bal * r[1], r[2])

\* for i in range(1, months + 1): is there an iteration i
loop_short(i, m) == i < m
loop_has(i, m) == i <= m

\* the last-payment correction of principal
final_principal_off(i, m, bal, principal) == principal
final_principal(i, m, bal, principal) == IF i = m THEN bal ELSE principal

\* the last-payment correction of payment
final_payment_off(i, m, pay, principal, interest) == pay
final_payment(i, m, pay, principal, interest) ==
    IF i = m THEN principal + interest ELSE pay

\* if balance < 0: balance = 0.0
clamp_off(b) == b
clamp(b) == IF b < 0 THEN 0 ELSE b

\* ------------------------------------------------------------------ engine
\* calculate_amortization_schedule, up to the loop
Enter ==
    /\ pc = "call"
    /\ \/ /\ monthly_payment_raises(months)
          /\ pc' = "raised"
          /\ exc' = "ZeroDivisionError"
          /\ UNCHANGED <<gridVars, engineVars, tied>>
       \/ /\ ~monthly_payment_raises(months)
          /\ \E P \in monthly_payment(amount, months, annual_rate) :
                payment' = P
          /\ tied' = (tied \/ Cardinality(monthly_payment(amount, months, annual_rate)) > 1)
          /\ balance' = amount
          /\ total_interest' = 0
          /\ schedule' = <<>>
          /\ pc' = "loop"
          /\ UNCHANGED <<amount, months, annual_rate, exc>>
    /\ UNCHANGED <<docVars, gridVars>>

\* one iteration of the loop
Row ==
    /\ pc = "loop"
    /\ LET i == Len(schedule) + 1
       IN  /\ loop_has(i, months)
           /\ \E interest \in interest_of(balance, annual_rate) :
                LET principal0 == payment - interest
                    principal == final_principal(i, months, balance, principal0)
                    pay == final_payment(i, months, payment, principal, interest)
                    bal == clamp(balance - principal)
                IN  /\ tied' = (tied \/ Cardinality(interest_of(balance, annual_rate)) > 1)
                    /\ payment' = pay
                    /\ balance' = bal
                    /\ total_interest' = total_interest + interest
                    /\ schedule' = Append(schedule,
                          [month |-> i, payment |-> pay, interest |-> interest,
                           principal |-> principal, balance |-> bal])
    /\ UNCHANGED <<amount, months, annual_rate, pc, exc, docVars, gridVars>>

\* return schedule, total_interest
Return ==
    /\ pc = "loop"
    /\ ~loop_has(Len(schedule) + 1, months)
    /\ pc' = "returned"
    /\ UNCHANGED <<gridVars, engineVars, tied, exc, docVars, gridVars>>

\* ---------------------------------------------------------------- documents
Templates == {"contratto", "garanzia", "carta", "approvazione"}
Assets == {"company.png", "logo.png", "seal.png", "sing_1.png", "sing_2.png"}

\* the loan data a caller passes with a document request
DocAmounts == {3, 100}
DocTerms == {0, 3, 5}
DocRates == {0, 12000}

\* html_file = f'{template_name}.html'
TemplateFile(t) ==
    CASE t = "contratto" -> "contratto.html"
      [] t = "garanzia" -> "garanzia.html"
      [] t = "carta" -> "carta.html"
      [] t = "approvazione" -> "approvazione.html"

NoData ==
    [name |-> <<>>, amount |-> 0, duration |-> 0, tan |-> 0, taeg |-> 0,
     payment |-> 0, signatures_table |-> ""]

NoSummary == [total_payments_exact |-> 0, overpayment |-> 0]

OverlayIdle ==
    /\ pdf_pages = 0
    /\ ip = 0
    /\ canvas = {}
    /\ overlay_pages = <<>>
    /\ writer_pages = <<>>
    /\ fallback = FALSE
    /\ result = <<>>

\* an exception leaves the running function and reaches the caller
Raise(e) ==
    /\ pc' = "raised"
    /\ exc' = e

\* generate_signatures_table: the table, or '' when one of its images is missing
generate_signatures_table(present) ==
    IF {"sing_2.png", "sing_1.png", "seal.png"} \subseteq present
    THEN "signatures" ELSE ""

\* -------------------------------------------------------------------- texts
\* A text is a sequence of pieces.  Where the code looks at characters (the
\* 'XXX' marks, the date, the values filled in) a piece is one character; an
\* HTML comment or a run of markup is one piece.
XXX == <<"X", "X", "X">>
DatePlaceholder == <<"1", "1", "/", "0", "6", "/", "2", "0", "2", "5">>
SignaturesPlaceholder == <<"<!-- SIGNATURES_TABLE_PLACEHOLDER -->">>
AmortizationPlaceholder == <<"<!-- AMORTIZATION_TABLE_PLACEHOLDER -->">>

\* fix_html_layout: the text of the variant's template, laid out
fix_html_layout(t) ==
    CASE t = "contratto" ->
            <<"<p>Cliente: ">> \o XXX \o <<"</p><p>Importo del credito: ">> \o XXX
            \o <<"</p><p>TAN: ">> \o XXX \o <<"</p><p>TAEG: ">> \o XXX
            \o <<"</p><p>Durata: ">> \o XXX \o <<"</p><p>Rata mensile: ">> \o XXX
            \o <<"</p><p>">> \o DatePlaceholder \o <<"</p>">> \o AmortizationPlaceholder
            \o <<"<p>Cliente: ">> \o XXX \o <<"</p>">> \o SignaturesPlaceholder
      [] t = "carta" ->
            <<"<p>Cliente: ">> \o XXX \o <<"</p><p>Importo: ">> \o XXX
            \o <<"</p><p>TAN: ">> \o XXX \o <<"</p><p>Durata: ">> \o XXX
            \o <<"</p><p>Rata: ">> \o XXX \o <<"</p>">>
      [] t = "garanzia" ->
            <<"<p>Cliente: ">> \o XXX \o <<"</p>">>
      [] t = "approvazione" ->
            <<"<p>Cliente: ">> \o XXX \o <<"</p><p>Importo: ">> \o XXX
            \o <<"</p><p>TAN: ">> \o XXX \o <<"</p>">>

\* fix_html_layout: the template file cannot be opened
fix_html_layout_raises(t) == TemplateFile(t) \notin files

\* generate_contratto_pdf that computes the payment whether it is given or not
generate_contratto_pdf_overwrite ==
    /\ pc = "api"
    /\ template_name = "contratto"
    /\ \/ /\ monthly_payment_raises(data.duration)
          /\ Raise("ZeroDivisionError")
          /\ UNCHANGED <<data, data_keys, tied, html>>
       \/ /\ ~monthly_payment_raises(data.duration)
          /\ LET computed == monthly_payment(data.amount, data.duration, data.tan)
             IN  /\ \E P \in computed :
                       data' = [data EXCEPT !.payment = P,
                                  !.signatures_table = generate_signatures_table(files)]
                 /\ tied' = (tied \/ Cardinality(computed) > 1)
          /\ data_keys' = data_keys \cup {"payment", "signatures_table"}
          /\ IF fix_html_layout_raises(template_name)
             THEN Raise("FileNotFoundError") /\ html' = html
             ELSE pc' = "gen" /\ exc' = exc /\ html' = fix_html_layout(template_name)
    /\ UNCHANGED <<gridVars, today, engineVars, template_name, files, image_px, stage, summary,
                   overlayVars>>

\* generate_contratto_pdf
generate_contratto_pdf ==
    /\ pc = "api"
    /\ template_name = "contratto"
    /\ \/ /\ "payment" \notin data_keys
          /\ monthly_payment_raises(data.duration)
          /\ Raise("ZeroDivisionError")
          /\ UNCHANGED <<data, data_keys, tied, html>>
       \/ /\ "payment" \in data_keys \/ ~monthly_payment_raises(data.duration)
          /\ LET computed == monthly_payment(data.amount, data.duration, data.tan)
                 Ps == IF "payment" \in data_keys THEN {data.payment} ELSE computed
             IN  /\ \E P \in Ps :
                       data' = [data EXCEPT !.payment = P,
                                  !.signatures_table = generate_signatures_table(files)]
                 /\ tied' = (tied \/ ("payment" \notin data_keys /\ Cardinality(computed) > 1))
          /\ data_keys' = data_keys \cup {"payment", "signatures_table"}
          /\ IF fix_html_layout_raises(template_name)
             THEN Raise("FileNotFoundError") /\ html' = html
             ELSE pc' = "gen" /\ exc' = exc /\ html' = fix_html_layout(template_name)
    /\ UNCHANGED <<gridVars, today, engineVars, template_name, files, image_px, stage, summary, overlayVars>>

\* generate_carta_pdf
generate_carta_pdf ==
    /\ pc = "api"
    /\ template_name = "carta"
    /\ \/ /\ "payment" \notin data_keys
          /\ monthly_payment_raises(data.duration)
          /\ Raise("ZeroDivisionError")
          /\ UNCHANGED <<data, data_keys, tied, html>>
       \/ /\ "payment" \in data_keys \/ ~monthly_payment_raises(data.duration)
          /\ LET computed == monthly_payment(data.amount, data.duration, data.tan)
                 Ps == IF "payment" \in data_keys THEN {data.payment} ELSE computed
             IN  /\ \E P \in Ps : data' = [data EXCEPT !.payment = P]
                 /\ tied' = (tied \/ ("payment" \notin data_keys /\ Cardinality(computed) > 1))
          /\ data_keys' = data_keys \cup {"payment"}
          /\ IF fix_html_layout_raises(template_name)
             THEN Raise("FileNotFoundError") /\ html' = html
             ELSE pc' = "gen" /\ exc' = exc /\ html' = fix_html_layout(template_name)
    /\ UNCHANGED <<gridVars, today, engineVars, template_name, files, image_px, stage, summary, overlayVars>>

\* generate_garanzia_pdf
generate_garanzia_pdf ==
    /\ pc = "api"
    /\ template_name = "garanzia"
    /\ IF fix_html_layout_raises(template_name)
       THEN Raise("FileNotFoundError") /\ html' = html
       ELSE pc' = "gen" /\ exc' = exc /\ html' = fix_html_layout(template_name)
    /\ UNCHANGED <<gridVars, today, engineVars, tied, template_name, data, data_keys, files, image_px, stage,
                   summary, overlayVars>>

\* generate_approvazione_pdf
generate_approvazione_pdf ==
    /\ pc = "api"
    /\ template_name = "approvazione"
    /\ IF fix_html_layout_raises(template_name)
       THEN Raise("FileNotFoundError") /\ html' = html
       ELSE pc' = "gen" /\ exc' = exc /\ html' = fix_html_layout(template_name)
    /\ UNCHANGED <<gridVars, today, engineVars, tied, template_name, data, data_keys, files, image_px, stage,
                   summary, overlayVars>>

\* _generate_pdf_with_images, entry: contratto calls the engine first
generate_pdf_with_images ==
    /\ pc = "gen"
    /\ IF template_name = "contratto"
       THEN /\ amount' = data.amount
            /\ months' = data.duration
            /\ annual_rate' = data.tan
            /\ pc' = "call"
            /\ stage' = "schedule"
       ELSE /\ pc' = "subst"
            /\ stage' = "subst"
            /\ UNCHANGED <<amount, months, annual_rate>>
    /\ UNCHANGED <<gridVars, textVars, payment, balance, total_interest, schedule, tied, exc, template_name,
                   data, data_keys, files, image_px, summary, overlayVars>>

\* ------------------------------------------------------ texts: operations
\* old is in text at position i
OccursAt(text, old, i) ==
    /\ i >= 1
    /\ i + Len(old) - 1 <= Len(text)
    /\ SubSeq(text, i, i + Len(old) - 1) = old

\* str.find: the first position of old in text at or after from, 0 if none
Find(text, old, from) ==
    LET hits == {i \in from..(Len(text) - Len(old) + 1) : OccursAt(text, old, i)}
    IN  IF hits = {} THEN 0 ELSE CHOOSE i \in hits : \A j \in hits : i <= j

\* text with new in the place of the Len(old) pieces at position i
Splice(text, i, old, new) ==
    SubSeq(text, 1, i - 1) \o new \o SubSeq(text, i + Len(old), Len(text))

\* the replacement that goes on looking after the first occurrence
replace_twice(text, old, new) ==
    LET i == Find(text, old, 1)
        once == IF i = 0 THEN text ELSE Splice(text, i, old, new)
        j == IF i = 0 THEN 0 ELSE Find(once, old, i + Len(new))
    IN  IF j = 0 THEN once ELSE Splice(once, j, old, new)

\* html.replace(old, new, 1)
replace_once(text, old, new) ==
    IF Find(text, old, 1) = 0 THEN text ELSE Splice(text, Find(text, old, 1), old, new)

\* html.replace(old, new): every occurrence, left to right, the text put in
\* not looked at again
RECURSIVE replace_from(_, _, _, _)
replace_from(text, old, new, from) ==
    IF Find(text, old, from) = 0 THEN text
    ELSE replace_from(Splice(text, Find(text, old, from), old, new), old, new,
                      Find(text, old, from) + Len(new))

replace_all(text, old, new) == replace_from(text, old, new, 1)

\* str(n) for an integer
RECURSIVE Numeral(_)
Numeral(n) ==
    LET digit == <<"0", "1", "2", "3", "4", "5", "6", "7", "8", "9">>
    IN  IF n < 0 THEN <<"-">> \o Numeral(-n)
        ELSE IF n < 10 THEN <<digit[n + 1]>>
        ELSE Numeral(n \div 10) \o <<digit[(n % 10) + 1]>>

\* n written with at least k digits
ZeroPadded(n, k) ==
    [i \in 1..(k - Len(Numeral(n))) |-> "0"] \o Numeral(n)

\* f"{n:,}": the digits in groups of three
RECURSIVE Grouped(_, _)
Grouped(n, separator) ==
    IF n < 1000 THEN Numeral(n)
    ELSE Grouped(n \div 1000, separator) \o separator \o ZeroPadded(n % 1000, 3)

\* format_money: f"{amount:,.2f}".replace(',', ' ') for an amount in cents
format_money(cents) ==
    (IF cents < 0 THEN <<"-">> ELSE <<>>)
    \o replace_all(Grouped(Abs(cents) \div 100, <<",">>), <<",">>, <<" ">>)
    \o <<".">> \o ZeroPadded(Abs(cents) % 100, 2)

\* f"{rate:.2f}%" for a rate in hundredths of a percent
format_percent(rate) ==
    (IF rate < 0 THEN <<"-">> ELSE <<>>)
    \o Numeral(Abs(rate) \div 100) \o <<".">> \o ZeroPadded(Abs(rate) % 100, 2) \o <<"%">>

\* f"{duration} mesi", f"{duration} mes"
format_duration(duration, unit) == Numeral(duration) \o <<" ">> \o unit

\* data.get('signatures_table', '')
signatures_text == IF data.signatures_table = "" THEN <<>> ELSE <<data.signatures_table>>

\* replacements: the list of (old, new) the variant builds
replacements(t) ==
    CASE t = "contratto" ->
            <<<<XXX, data.name>>,
              <<XXX, format_money(data.amount)>>,
              <<XXX, format_percent(data.tan)>>,
              <<XXX, format_percent(data.taeg)>>,
              <<XXX, format_duration(data.duration, <<"m", "e", "s", "i">>)>>,
              <<XXX, format_money(data.payment)>>,
              <<DatePlaceholder, today>>,
              <<XXX, data.name>>,
              <<SignaturesPlaceholder, signatures_text>>>>
      [] t = "carta" ->
            <<<<XXX, data.name>>,
              <<XXX, format_money(data.amount)>>,
              <<XXX, format_percent(data.tan)>>,
              <<XXX, format_duration(data.duration, <<"m", "e", "s">>)>>,
              <<XXX, format_money(data.payment)>>>>
      [] t = "garanzia" ->
            <<<<XXX, data.name>>>>
      [] t = "approvazione" ->
            <<<<XXX, data.name>>,
              <<XXX, format_money(data.amount)>>,
              <<XXX, format_percent(data.tan)>>>>

\* for old, new in replacements: html = html.replace(old, new, 1), from the
\* k-th pair on
RECURSIVE apply_replacements(_, _, _)
apply_replacements(text, list, k) ==
    IF k > Len(list) THEN text
    ELSE apply_replacements(replace_once(text, list[k][1], list[k][2]), list, k + 1)

\* the digits of num/den after the decimal point, k of them, num < den
RECURSIVE Decimals(_, _, _)
Decimals(num, den, k) ==
    IF k = 0 THEN <<>>
    ELSE Numeral((num * 10) \div den) \o Decimals((num * 10) % den, den, k - 1)

\* f"{monthly_rate_val:.10f}" for the rate p/q, 0 <= p/q: the rate is no
\* half of a unit of the tenth decimal, so the nearest is taken from the
\* eleventh digit
format_rate(r) ==
    LET up == Decimals(r[1] % r[2], r[2], 11)[11] \in {"5", "6", "7", "8", "9"}
        shown == Decimals(r[1] % r[2], r[2], 10)
        nines == {i \in 1..10 : \A j \in i..10 : shown[j] = "9"}
        last == IF nines = {} THEN 11 ELSE CHOOSE i \in nines : \A j \in nines : i <= j
        next == <<"1", "2", "3", "4", "5", "6", "7", "8", "9">>
    IN  Numeral(r[1] \div r[2] + (IF up /\ last = 1 THEN 1 ELSE 0)) \o <<".">>
        \o [i \in 1..10 |->
               IF ~up THEN shown[i]
               ELSE IF i >= last THEN "0"
               ELSE IF i = last - 1 THEN next[CHOOSE d \in 1..9 : Numeral(d - 1) = <<shown[i]>>]
               ELSE shown[i]]

\* summary_html: the totals before the table
summary_html(total_payments_exact, overpayment) ==
    <<"<p>Tasso mensile: ">> \o format_rate(monthly_rate(data.tan))
    \o <<"</p><p>Rata mensile: ">> \o format_money(data.payment)
    \o <<"</p><p>Importo totale pagamenti: ">> \o format_money(total_payments_exact)
    \o <<"</p><p>Importo interessi totali: ">> \o format_money(overpayment)
    \o <<"</p><br>">>

\* for row in schedule: table_html += ..., from the k-th row on
RECURSIVE table_rows(_, _)
table_rows(rws, k) ==
    IF k > Len(rws) THEN <<>>
    ELSE <<"<tr><td>">> \o Numeral(rws[k].month)
         \o <<"</td><td>">> \o format_money(rws[k].payment)
         \o <<"</td><td>">> \o format_money(rws[k].interest)
         \o <<"</td><td>">> \o format_money(rws[k].principal)
         \o <<"</td><td>">> \o format_money(rws[k].balance)
         \o <<"</td></tr>">> \o table_rows(rws, k + 1)

\* table_html: the heading row, the rows of the schedule
table_html(rws) ==
    <<"<table><tr>Mese, Pagamento, Interessi, Importo del prestito, Saldo residuo</tr>">>
    \o table_rows(rws, 1) \o <<"</table>">>

\* _generate_pdf_with_images, contratto: the totals and the table of the schedule
build_table ==
    /\ pc = "returned"
    /\ template_name = "contratto"
    /\ LET total_payments_exact == SumField(schedule, "payment")
           overpayment == total_payments_exact - data.amount
       IN  /\ summary' = [total_payments_exact |-> total_payments_exact,
                          overpayment |-> overpayment]
           /\ html' = IF Find(html, AmortizationPlaceholder, 1) # 0
                      THEN replace_all(html, AmortizationPlaceholder,
                                       summary_html(total_payments_exact, overpayment)
                                       \o table_html(schedule))
                      ELSE html
    /\ pc' = "subst"
    /\ stage' = "subst"
    /\ UNCHANGED <<gridVars, today, engineVars, tied, exc, template_name, data, data_keys, files,
                   image_px, overlayVars>>

\* the keys of data the variant's replacement list reads
ReplacementKeys(t) ==
    CASE t = "contratto" -> {"name", "amount", "tan", "taeg", "duration", "payment"}
      [] t = "carta" -> {"name", "amount", "tan", "duration", "payment"}
      [] t = "garanzia" -> {"name"}
      [] t = "approvazione" -> {"name", "amount", "tan"}

\* _generate_pdf_with_images: the replacement list is built and applied
substitute ==
    /\ pc = "subst"
    /\ IF ReplacementKeys(template_name) \subseteq data_keys
       THEN /\ html' = apply_replacements(html, replacements(template_name), 1)
            /\ pc' = "render" /\ stage' = "render" /\ exc' = exc
       ELSE /\ Raise("KeyError")
            /\ UNCHANGED <<html, stage>>
    /\ UNCHANGED <<gridVars, today, engineVars, tied, template_name, data, data_keys, files,
                   image_px, summary, overlayVars>>

\* the renderer fails and the error is swallowed with an empty document
render_swallow ==
    /\ pc = "render"
    /\ \/ /\ pc' = "done"
          /\ exc' = "RenderError"
          /\ UNCHANGED <<stage, overlayVars>>
       \/ /\ \E n \in 1..MaxPages : pdf_pages' = n
          /\ pc' = "overlay"
          /\ stage' = "overlay"
          /\ ip' = 1
          /\ UNCHANGED <<exc, canvas, overlay_pages, writer_pages, fallback, result>>
    /\ UNCHANGED <<gridVars, textVars, engineVars, tied, template_name, data, data_keys, files, image_px, summary>>

\* pdf_bytes = HTML(string=html).write_pdf(), then _add_images_to_pdf is entered
render ==
    /\ pc = "render"
    /\ \/ /\ Raise("RenderError")
          /\ UNCHANGED <<stage, overlayVars>>
       \/ /\ \E n \in 1..MaxPages : pdf_pages' = n
          /\ pc' = "overlay"
          /\ stage' = "overlay"
          /\ ip' = 1
          /\ UNCHANGED <<exc, canvas, overlay_pages, writer_pages, fallback, result>>
    /\ UNCHANGED <<gridVars, textVars, engineVars, tied, template_name, data, data_keys, files, image_px, summary>>

\* ------------------------------------------------------------------ overlay
Instr(op, arg) == [op |-> op, arg |-> arg]
\* ----------------------------------------------------------------- grid
\* Lengths on the page are counted in 1/140 mm, which makes a twelfth of a
\* cell a whole number both ways; x runs from the left edge, y from the
\* bottom edge as ReportLab takes it.  Image lengths are counted in
\* 1/299250 of a pixel width (0.264583 mm), which makes every scaled size and
\* its half a whole number.
page_width_mm == 210
page_height_mm == 297
columns == 25
rows == 35

units(millimetres) == 140 * millimetres

\* cell_width_mm = 210/25, cell_height_mm = 297/35
cell_width_mm == units(page_width_mm) \div columns
cell_height_mm == units(page_height_mm) \div rows

\* the row taken without the step back to a 0-based index
cell_row_unshifted(index) == index \div columns

\* the column taken without the step back into the row
cell_col_unwrapped(index) == index - 1

\* row = (index - 1) // 25, col = (index - 1) % 25
cell_row(index) == (index - 1) \div columns
cell_col(index) == (index - 1) % columns

\* the flip that stops at the bottom edge
flip_clamped(y) == IF y > units(page_height_mm) THEN 0 ELSE units(page_height_mm) - y

\* 297 - y: a y measured down from the top edge, measured up from the bottom
flip(y) == units(page_height_mm) - y

\* y coordinates on the page and below it, by twelfths of a cell
Ys == {k * (cell_height_mm \div 12) : k \in 0..(12 * (rows + MaxBelow))}

\* the pixel sizes of the image files
ImageSizes == {<<120, 40>>, <<75, 75>>}

\* img.width * 0.264583 scaled by num/den
scaled(px, num, den) == px * num * (299250 \div den)

scaled_size(px, num, den) == <<scaled(px[1], num, den), scaled(px[2], num, den)>>

\* x = x_center - width / 2, y = y_center - height / 2: the image is drawn
\* with its lower-left corner at the point less off
centered(at, size) == [at |-> at, off |-> <<size[1] \div 2, size[2] \div 2>>, size |-> size]

\* the image drawn around the point it is given
cornered_around(at, size) == centered(at, size)

\* drawImage at the point itself: the point is the image's lower-left corner
cornered(at, size) == [at |-> at, off |-> <<0, 0>>, size |-> size]

\* the number of the grid cell the drawing code of variant t starts from for
\* an image file
base_cell(t, file) ==
    CASE file = "logo.png" -> 71
      [] t = "garanzia" /\ file = "company.png" -> 27
      [] t = "garanzia" /\ file = "seal.png" -> 590
      [] t = "garanzia" /\ file = "sing_1.png" -> 593
      [] t \in {"carta", "approvazione", "contratto"} /\ file = "company.png" -> 52
      [] t \in {"carta", "approvazione"} /\ file = "seal.png" -> 775
      [] t \in {"carta", "approvazione"} /\ file = "sing_1.png" -> 770

\* the number of the grid cell of the page number
page_number_cell == 862

\* where and how large the drawing code of variant t draws an image file: the
\* point computed from the grid cell, what is taken off it, the scaled size
placement(t, file, px) ==
    LET cw == cell_width_mm
        ch == cell_height_mm
        cell == base_cell(t, file)
        logo == cornered(<<(cell_col(cell) - 2 + 4 - 2) * cw,
                           flip(cell_row(cell) * ch + ch) - ch \div 4 - ch>>,
                         scaled_size(px, 1, 9))
        row_52 == cell_row(cell) + 1
        col_52 == cell_col(cell) + 1
        x_52 == col_52 * cw - cw \div 2 - cw \div 6 + cw \div 4
    IN  CASE file = "logo.png" -> logo
          [] t = "garanzia" /\ file = "company.png" ->
                centered(<<(cell_col(cell) + 5) * cw + cw \div 2 + (5 * cw) \div 4 + cw
                             + cw \div 3 - (3 * cw) \div 2 - cw - cw \div 3 + cw \div 2,
                           flip(cell_row(cell) * ch + ch \div 2 + ch - ch \div 3 + ch
                                - ch \div 3 - ch \div 4)>>,
                         scaled_size(px, 115, 133))
          [] t = "garanzia" /\ file = "seal.png" ->
                centered(<<cell_col(cell) * cw + cw \div 2,
                           flip((cell_row(cell) + 2) * ch + ch \div 2)>>,
                         scaled_size(px, 1, 5))
          [] t = "garanzia" /\ file = "sing_1.png" ->
                centered(<<(cell_col(cell) - 6) * cw + cw \div 2,
                           flip((cell_row(cell) + 2) * ch + ch \div 2)>>,
                         scaled_size(px, 1, 5))
          [] t \in {"carta", "approvazione"} /\ file = "company.png" ->
                cornered(<<x_52, flip(row_52 * ch + ch) + ch \div 2 + ch \div 4 - ch + ch>>,
                         scaled_size(px, 18, 25))
          [] t \in {"carta", "approvazione"} /\ file = "seal.png" ->
                centered(<<cell_col(cell) * cw + cw \div 2,
                           flip(cell_row(cell) * ch + ch \div 2)>>,
                         scaled_size(px, 1, 5))
          [] t \in {"carta", "approvazione"} /\ file = "sing_1.png" ->
                centered(<<cell_col(cell) * cw + cw \div 2,
                           flip(cell_row(cell) * ch + ch \div 2)>>,
                         scaled_size(px, 1, 5))
          [] t = "contratto" /\ file = "company.png" ->
                cornered(<<x_52, flip(row_52 * ch + ch) + ch \div 2 + ch \div 4 - ch \div 2>>,
                         scaled_size(px, 117, 125))

\* x_page_num, y_page_num: the point of the page number, cell 862
page_number_at ==
    <<(cell_col(page_number_cell) + 1) * cell_width_mm + cell_width_mm \div 2,
      flip(cell_row(page_number_cell) * cell_height_mm + cell_height_mm \div 2)
          - cell_height_mm \div 4 + cell_height_mm \div 4>>

\* drawImage(file, x, y, width, height)
Image(t, file, px) ==
    [kind |-> "image", what |-> file] @@ placement(t, file, px)

\* drawString(x_page_num - 2, y_page_num - 2, str): the point, and the shift
\* in points
Text(str) == [kind |-> "text", what |-> str, at |-> page_number_at, shift |-> <<-2, -2>>]

\* the loop that draws the images on every page
RECURSIVE PageOps_every(_, _)
PageOps_every(i, n) ==
    IF i >= n THEN <<>>
    ELSE <<Instr("draw", "company.png"), Instr("draw", "logo.png"),
           Instr("text", ToString(i + 1)), Instr("showPage", "")>>
         \o PageOps_every(i + 1, n)

\* the loop that numbers the pages from 0
RECURSIVE PageOps_from_zero(_, _)
PageOps_from_zero(i, n) ==
    IF i >= n THEN <<>>
    ELSE (IF i < 2
          THEN <<Instr("draw", "company.png"), Instr("draw", "logo.png")>>
          ELSE <<>>)
         \o <<Instr("text", ToString(i)), Instr("showPage", "")>>
         \o PageOps_from_zero(i + 1, n)

\* contratto, for i in range(num_pages): the body of the loop for pages i..n-1
RECURSIVE PageOps(_, _)
PageOps(i, n) ==
    IF i >= n THEN <<>>
    ELSE (IF i < 2
          THEN <<Instr("draw", "company.png"), Instr("draw", "logo.png")>>
          ELSE <<>>)
         \o <<Instr("text", ToString(i + 1)), Instr("showPage", "")>>
         \o PageOps(i + 1, n)

\* the drawing code of _add_images_to_pdf for a variant, in program order
DrawProgram(t, n) ==
    CASE t = "garanzia" ->
            <<Instr("open", "company.png"), Instr("draw", "company.png"),
              Instr("open", "logo.png"), Instr("draw", "logo.png"),
              Instr("open", "seal.png"), Instr("draw", "seal.png"),
              Instr("open", "sing_1.png"), Instr("draw", "sing_1.png"),
              Instr("save", "")>>
      [] t = "carta" ->
            <<Instr("open", "company.png"), Instr("draw", "company.png"),
              Instr("open", "logo.png"), Instr("draw", "logo.png"),
              Instr("open", "seal.png"), Instr("draw", "seal.png"),
              Instr("open", "sing_1.png"), Instr("draw", "sing_1.png"),
              Instr("save", "")>>
      [] t = "approvazione" ->
            <<Instr("open", "company.png"), Instr("draw", "company.png"),
              Instr("open", "seal.png"), Instr("draw", "seal.png"),
              Instr("open", "sing_1.png"), Instr("draw", "sing_1.png"),
              Instr("save", "")>>
      [] t = "contratto" ->
            <<Instr("open", "company.png"), Instr("open", "logo.png")>>
            \o PageOps(0, n) \o <<Instr("save", "")>>

\* the instruction the overlay is at
Current == DrawProgram(template_name, pdf_pages)[ip]

\* BytesIO(pdf_bytes): the rendered pages, nothing stamped on them
BaseDocument(n) == [i \in 1..n |-> [index |-> i - 1, stamps |-> {}]]

\* the pages merged so far, the rest of the base document after them
fallback_written(n, written) ==
    written \o SubSeq(BaseDocument(n), Len(written) + 1, n)

\* except Exception: buf = BytesIO(pdf_bytes); return buf
fallback_document(n, written) == BaseDocument(n)

\* the except branch of _add_images_to_pdf
ExceptReturn(e) ==
    /\ exc' = e
    /\ fallback' = TRUE
    /\ result' = fallback_document(pdf_pages, writer_pages)
    /\ pc' = "done"
    /\ UNCHANGED <<pdf_pages, ip, canvas, overlay_pages, writer_pages>>

\* a missing image raises out of _add_images_to_pdf
overlay_open_raises ==
    /\ pc = "overlay"
    /\ Current.op = "open"
    /\ IF Current.arg \in files
       THEN /\ ip' = ip + 1
            /\ UNCHANGED <<pc, exc, pdf_pages, canvas, overlay_pages, writer_pages,
                           fallback, result>>
       ELSE /\ Raise("FileNotFoundError")
            /\ UNCHANGED overlayVars
    /\ UNCHANGED <<gridVars, textVars, engineVars, tied, template_name, data, data_keys, files, image_px, stage, summary>>

\* Image.open(file)
overlay_open ==
    /\ pc = "overlay"
    /\ Current.op = "open"
    /\ IF Current.arg \in files
       THEN /\ ip' = ip + 1
            /\ UNCHANGED <<pc, exc, pdf_pages, canvas, overlay_pages, writer_pages,
                           fallback, result>>
       ELSE ExceptReturn("FileNotFoundError")
    /\ UNCHANGED <<gridVars, textVars, engineVars, tied, template_name, data, data_keys, files, image_px, stage, summary>>

\* overlay_canvas.drawImage(file, ...)
overlay_draw ==
    /\ pc = "overlay"
    /\ Current.op = "draw"
    /\ canvas' = canvas \cup {Image(template_name, Current.arg, image_px)}
    /\ ip' = ip + 1
    /\ UNCHANGED <<gridVars, textVars, engineVars, tied, pc, exc, template_name, data, data_keys, files, image_px, stage,
                   summary, pdf_pages, overlay_pages, writer_pages, fallback, result>>

\* overlay_canvas.drawString(..., str(i + 1))
overlay_text ==
    /\ pc = "overlay"
    /\ Current.op = "text"
    /\ canvas' = canvas \cup {Text(Current.arg)}
    /\ ip' = ip + 1
    /\ UNCHANGED <<gridVars, textVars, engineVars, tied, pc, exc, template_name, data, data_keys, files, image_px, stage,
                   summary, pdf_pages, overlay_pages, writer_pages, fallback, result>>

\* overlay_canvas.showPage()
overlay_showPage ==
    /\ pc = "overlay"
    /\ Current.op = "showPage"
    /\ overlay_pages' = Append(overlay_pages, canvas)
    /\ canvas' = {}
    /\ ip' = ip + 1
    /\ UNCHANGED <<gridVars, textVars, engineVars, tied, pc, exc, template_name, data, data_keys, files, image_px, stage,
                   summary, pdf_pages, writer_pages, fallback, result>>

\* overlay_canvas.save(): a page with something drawn on it is shown first;
\* then the readers and the writer are set up
overlay_save ==
    /\ pc = "overlay"
    /\ Current.op = "save"
    /\ overlay_pages' = IF canvas # {} THEN Append(overlay_pages, canvas) ELSE overlay_pages
    /\ canvas' = {}
    /\ writer_pages' = <<>>
    /\ pc' = "merge"
    /\ UNCHANGED <<gridVars, textVars, engineVars, tied, exc, template_name, data, data_keys, files, image_px, stage,
                   summary, pdf_pages, ip, fallback, result>>

\* the first overlay page stamped on every base page
merged_stamps_first(i, overlay) == IF overlay = <<>> THEN {} ELSE overlay[1]

\* the last overlay page stamped on the base pages beyond the overlay
merged_stamps_repeat(i, overlay) ==
    IF overlay = <<>> THEN {}
    ELSE overlay[IF i < Len(overlay) THEN i + 1 ELSE Len(overlay)]

\* if i < len(overlay_pdf.pages): page.merge_page(overlay_pdf.pages[i])
merged_stamps(i, overlay) == IF i < Len(overlay) THEN overlay[i + 1] ELSE {}

\* for i, page in enumerate(base_pdf.pages): one iteration
merge_page ==
    /\ pc = "merge"
    /\ Len(writer_pages) < pdf_pages
    /\ LET i == Len(writer_pages)
       IN  writer_pages' = Append(writer_pages,
                                  [index |-> i, stamps |-> merged_stamps(i, overlay_pages)])
    /\ UNCHANGED <<gridVars, textVars, engineVars, tied, pc, exc, template_name, data, data_keys, files, image_px, stage,
                   summary, pdf_pages, ip, canvas, overlay_pages, fallback, result>>

\* writer.write(final_buffer); return final_buffer
write_final ==
    /\ pc = "merge"
    /\ Len(writer_pages) = pdf_pages
    /\ result' = writer_pages
    /\ pc' = "done"
    /\ UNCHANGED <<gridVars, textVars, engineVars, tied, exc, template_name, data, data_keys, files, image_px, stage,
                   summary, pdf_pages, ip, canvas, overlay_pages, writer_pages, fallback>>

\* a call into PIL, ReportLab or PyPDF2 raises inside the try block
library_error ==
    /\ pc \in {"overlay", "merge"}
    /\ ExceptReturn("Exception")
    /\ UNCHANGED <<gridVars, textVars, engineVars, tied, template_name, data, data_keys, files, image_px, stage, summary>>

\* ------------------------------------------------------------ grid loop
\* generate_grid before its loop, and no coordinate taken
GridIdle ==
    /\ grid_row = 0
    /\ grid_col = 0
    /\ cell_number = 1
    /\ grid_html = <<>>
    /\ y_top = 0
    /\ y_now = 0
    /\ flips = 0

\* for row in range(35): for col in range(25): one iteration of the inner loop
grid_cell ==
    /\ pc = "grid"
    /\ grid_row < rows
    /\ grid_html' = Append(grid_html,
                           [row |-> grid_row, col |-> grid_col, number |-> cell_number,
                            left |-> grid_col * cell_width_mm,
                            top |-> grid_row * cell_height_mm])
    /\ cell_number' = cell_number + 1
    /\ IF grid_col + 1 < columns
       THEN grid_col' = grid_col + 1 /\ grid_row' = grid_row
       ELSE grid_col' = 0 /\ grid_row' = grid_row + 1
    /\ UNCHANGED <<engineVars, tied, pc, exc, docVars, y_top, y_now, flips>>

\* return grid_html
grid_return ==
    /\ pc = "grid"
    /\ grid_row = rows
    /\ pc' = "grid_done"
    /\ UNCHANGED <<engineVars, tied, exc, docVars, gridVars>>

\* y = 297 - y
apply_flip ==
    /\ pc = "flip"
    /\ flips < 2
    /\ y_now' = flip(y_now)
    /\ flips' = flips + 1
    /\ UNCHANGED <<engineVars, tied, pc, exc, docVars,
                   grid_row, grid_col, cell_number, grid_html, y_top>>

\* ------------------------------------------------------- engine properties
\* LoanTerms the engine is specified for
Valid == amount > 0 /\ months >= 1 /\ annual_rate >= 0

\* the balance before row k
BalanceBefore(k) == IF k = 1 THEN amount ELSE schedule[k - 1].balance

\* C1: for every valid input the principal components of the returned rows
\* add up to the input principal, to the cent.  (Stated on the runs in which
\* no rounding met an exact half cent, where the rows are those of the float
\* computation.)
C1_PrincipalSumIsAmount ==
    (pc = "returned" /\ Valid /\ ~tied) => SumField(schedule, "principal") = amount

\* C2: for every valid input the balance of the last returned row is 0.
C2_LastBalanceZero ==
    (pc = "returned" /\ Valid) => schedule[Len(schedule)].balance = 0

C2_Witness ==
    /\ pc = "returned" /\ Valid /\ months >= 2
    /\ schedule[Len(schedule)].principal # schedule[1].payment - schedule[Len(schedule)].interest
    /\ schedule[Len(schedule)].balance = 0

\* C3: in month order the remaining balance never increases from one row to
\* the next, starting from the principal, and is negative in no row.
C3_BalanceMonotone ==
    Valid => \A k \in 1..Len(schedule) :
                /\ schedule[k].balance >= 0
                /\ schedule[k].balance <= BalanceBefore(k)

C3_Witness ==
    /\ pc = "returned" /\ Valid /\ annual_rate > 0 /\ Len(schedule) >= 3
    /\ schedule[1].balance < amount
    /\ schedule[2].balance < schedule[1].balance
    /\ schedule[3].balance < schedule[2].balance

\* C4: in every row payment = interest + principal, to the cent: in the
\* non-final rows with the fixed periodic payment, in the final row with the
\* recomputed payment.
C4_PaymentSplits ==
    \A k \in 1..Len(schedule) :
        schedule[k].payment = schedule[k].interest + schedule[k].principal

C4_Witness ==
    /\ pc = "returned" /\ Valid /\ Len(schedule) >= 2
    /\ schedule[Len(schedule)].interest > 0
    /\ schedule[Len(schedule)].payment # schedule[1].payment
    /\ schedule[1].payment = schedule[1].interest + schedule[1].principal

\* C5: the engine returns exactly term_months rows and the i-th row carries
\* month = i, for every term_months >= 1.
C5_RowCount ==
    (pc = "returned" /\ months >= 1) =>
        /\ Len(schedule) = months
        /\ \A k \in 1..Len(schedule) : schedule[k].month = k

C5_Witness ==
    /\ pc = "returned" /\ months >= 3 /\ Len(schedule) = months
    /\ schedule[months].month = months

\* C6: at rate 0 every row has interest 0 and every row but the last has the
\* same principal component, the principal divided by the term rounded to
\* cents.
C6_ZeroRate ==
    (Valid /\ annual_rate = 0) =>
        \A k \in 1..Len(schedule) :
            /\ schedule[k].interest = 0
            /\ k < months => /\ schedule[k].principal \in round2(amount, months)
                             /\ schedule[k].principal = schedule[1].principal

C6_Witness ==
    /\ pc = "returned" /\ Valid /\ annual_rate = 0 /\ months >= 3
    /\ schedule[1].principal = schedule[2].principal
    /\ schedule[months].principal # schedule[1].principal

\* C7: a non-positive principal, a non-positive term or a negative rate is
\* rejected with an error before a periodic payment or a row is computed, and
\* no schedule is returned.  (Stated on the runs in which no rounding met an
\* exact half cent.)
C7_InvalidRejected ==
    (~Valid /\ ~tied) => (pc \in {"call", "raised"} /\ schedule = <<>>)


\* ----------------------------------------------------- pipeline properties
\* the image files the variant's drawing code opens
OverlayAssets(t) ==
    {DrawProgram(t, 1)[k].arg :
        k \in {j \in 1..Len(DrawProgram(t, 1)) : DrawProgram(t, 1)[j].op = "open"}}

\* the images a variant needs: those of its overlay, and for contratto those
\* of the signatures table
RequiredAssets(t) ==
    OverlayAssets(t) \cup
    (IF t = "contratto" THEN {"sing_2.png", "sing_1.png", "seal.png"} ELSE {})

\* everything the variant's drawing code puts on an n-page overlay
VariantStamps(t, n) ==
    {IF DrawProgram(t, n)[k].op = "draw"
     THEN Image(t, DrawProgram(t, n)[k].arg, image_px) ELSE Text(DrawProgram(t, n)[k].arg) :
        k \in {j \in 1..Len(DrawProgram(t, n)) : DrawProgram(t, n)[j].op \in {"draw", "text"}}}

StampsOf(doc) == UNION {doc[k].stamps : k \in 1..Len(doc)}

C9_FailureReturnsBase ==
    pc = "done" =>
        /\ fallback => result = BaseDocument(pdf_pages)
        /\ StampsOf(result) \in {{}, VariantStamps(template_name, pdf_pages)}

C9_Witness ==
    /\ pc = "done" /\ fallback /\ exc = "Exception"
    /\ Len(writer_pages) >= 1 /\ Len(writer_pages) < pdf_pages
    /\ writer_pages[1].stamps # {}
    /\ result = BaseDocument(pdf_pages)

\* C10: a failure while the schedule is computed, the fields are substituted
\* or the base document is rendered reaches the caller as an exception and no
\* document is returned; the fallback is taken only in the overlay step.
C10_EarlyFailurePropagates ==
    /\ (exc # "" /\ stage \in {"schedule", "subst", "render"}) =>
            (pc = "raised" /\ result = <<>>)
    /\ pc = "raised" => (result = <<>> /\ ~fallback)
    /\ fallback => stage = "overlay"

C10_Witness ==
    /\ pc = "raised" /\ stage = "schedule" /\ exc = "ZeroDivisionError"
    /\ template_name = "contratto" /\ result = <<>>

\* ------------------------------------------------------ overlay properties
\* C11: the merged output has as many pages as the base document, in the
\* base order, and every base page that no overlay page covers is written
\* with nothing stamped on it.
C11_MergeKeepsPages ==
    /\ (pc \in {"merge", "done"} /\ ~fallback) =>
           \A k \in 1..Len(writer_pages) :
              /\ writer_pages[k].index = k - 1
              /\ k > Len(overlay_pages) => writer_pages[k].stamps = {}
    /\ (pc = "done" /\ ~fallback) =>
           /\ Len(result) = pdf_pages
           /\ result = writer_pages

C11_Witness ==
    /\ pc = "done" /\ ~fallback
    /\ pdf_pages = 3 /\ Len(overlay_pages) = 1
    /\ result[1].stamps # {}
    /\ result[2].stamps = {} /\ result[3].stamps = {}

\* the images and the texts among what is drawn on a page
ImagesOn(stamps) == {st \in stamps : st.kind = "image"}
TextsOn(stamps) == {st \in stamps : st.kind = "text"}
Drawn(stamps, file) == \E st \in ImagesOn(stamps) : st.what = file

\* everything drawn so far: the finished overlay pages and the open one
AllDrawn == canvas \cup UNION {overlay_pages[k] : k \in 1..Len(overlay_pages)}

\* the decimal numeral of a natural number
RECURSIVE DecimalString(_)
DecimalString(n) ==
    LET digit == <<"0", "1", "2", "3", "4", "5", "6", "7", "8", "9">>
    IN  IF n < 10 THEN digit[n + 1] ELSE DecimalString(n \div 10) \o digit[(n % 10) + 1]

\* C12: for contratto the company and logo images are drawn on the overlay
\* pages with index 0 and 1 (as far as there are such pages) and on no page
\* with index >= 2, and so they reach the pages of the result.
C12_ImagesOnFirstTwoPages ==
    template_name = "contratto" =>
        /\ \A k \in 1..Len(overlay_pages) :
              /\ Drawn(overlay_pages[k], "company.png") <=> k - 1 < 2
              /\ Drawn(overlay_pages[k], "logo.png") <=> k - 1 < 2
        /\ (pc = "done" /\ ~fallback) =>
              \A k \in 1..pdf_pages :
                 /\ Drawn(result[k].stamps, "company.png") <=> k - 1 < 2
                 /\ Drawn(result[k].stamps, "logo.png") <=> k - 1 < 2

C12_Witness ==
    /\ template_name = "contratto" /\ pc = "done" /\ ~fallback /\ pdf_pages = 3
    /\ Drawn(result[1].stamps, "company.png") /\ Drawn(result[2].stamps, "logo.png")
    /\ ImagesOn(result[3].stamps) = {}

\* C13: for contratto with N base pages the finished overlay has exactly N
\* pages, and the one text drawn on the page with 0-based index i is the
\* decimal numeral of i + 1, at the same point on every page.
C13_PageNumbers ==
    (template_name = "contratto" /\ pc \in {"merge", "done"} /\ ~fallback) =>
        /\ Len(overlay_pages) = pdf_pages
        /\ \A k \in 1..Len(overlay_pages) :
              /\ Cardinality(TextsOn(overlay_pages[k])) = 1
              /\ \A tx \in TextsOn(overlay_pages[k]) :
                    /\ tx.what = DecimalString((k - 1) + 1)
                    /\ \A j \in 1..Len(overlay_pages) :
                          \A ty \in TextsOn(overlay_pages[j]) :
                             tx.at = ty.at /\ tx.shift = ty.shift

C13_Witness ==
    /\ template_name = "contratto" /\ pc = "done" /\ ~fallback /\ pdf_pages = 3
    /\ \E tx \in TextsOn(result[3].stamps) : tx.what = "3"
    /\ \E tx \in TextsOn(result[1].stamps) : tx.what = "1"

\* C14 as stated: every image of every variant is drawn centred on its
\* point: the lower-left corner is the point less half the scaled width and
\* height.
C14_AllCentered ==
    \A st \in ImagesOn(AllDrawn) :
        2 * st.off[1] = st.size[1] /\ 2 * st.off[2] = st.size[2]

\* C14: the seal and the signature of every variant, and the company image
\* of garanzia, are drawn centred on their point (corner = point less half
\* the scaled width and height); the logo of every variant and the company
\* image of carta, approvazione and contratto are drawn with the lower-left
\* corner at their point.
C14_CenteredOrCornered ==
    \A st \in ImagesOn(AllDrawn) :
        /\ st.size[1] > 0 /\ st.size[2] > 0
        /\ IF \/ st.what \in {"seal.png", "sing_1.png"}
              \/ (st.what = "company.png" /\ template_name = "garanzia")
           THEN 2 * st.off[1] = st.size[1] /\ 2 * st.off[2] = st.size[2]
           ELSE st.off = <<0, 0>>

C14_Witness ==
    /\ template_name = "carta" /\ pc = "done" /\ ~fallback
    /\ \E st \in ImagesOn(result[1].stamps) : st.what = "logo.png" /\ st.off = <<0, 0>>
    /\ \E st \in ImagesOn(result[1].stamps) : st.what = "seal.png" /\ st.off[1] > 0

\* ---------------------------------------------------------- grid properties
\* C15: every cell (row, col) of the 35 x 25 grid has the 1-based number
\* row * 25 + col + 1, and (number - 1) // 25, (number - 1) % 25 give the
\* pair back; every number k from 1 on is the number of the k-th cell, and
\* going to its pair and back gives k; the loop covers 1..875.
C15_GridRoundTrip ==
    /\ \A k \in 1..Len(grid_html) :
          LET c == grid_html[k]
          IN  /\ c.row \in 0..34 /\ c.col \in 0..24
              /\ c.number = c.row * 25 + c.col + 1
              /\ cell_row(c.number) = c.row
              /\ cell_col(c.number) = c.col
              /\ c.number = k
              /\ cell_row(k) * 25 + cell_col(k) + 1 = k
    /\ pc = "grid_done" =>
          /\ Len(grid_html) = 875
          /\ {<<grid_html[k].row, grid_html[k].col>> : k \in 1..Len(grid_html)}
                = (0..34) \X (0..24)

C15_Witness ==
    /\ pc = "grid_done"
    /\ Len(grid_html) = 875
    /\ grid_html[875].row = 34 /\ grid_html[875].col = 24
    /\ grid_html[26].row = 1 /\ grid_html[26].col = 0

Example36 == amount = 1500000 /\ months = 36 /\ annual_rate = 786

\* 1200.00 over 12 months at rate 0
Example12 == amount = 120000 /\ months = 12 /\ annual_rate = 0

\* the cent nearest to num/den, den > 0, a half cent going up
round_half_up(num, den) == (2 * num + den) \div (2 * den)

\* C17 as stated: 15000.00 / 36 / 7.86 gives the payment 466.80, a first
\* row with interest 98.25 and principal 368.55, 36 rows, last balance 0.
C17_ExampleAsStated ==
    (pc = "returned" /\ Example36) =>
        /\ Len(schedule) = 36
        /\ schedule[1].payment = 46680
        /\ schedule[1].interest = 9825
        /\ schedule[1].principal = 36855
        /\ schedule[36].balance = 0

\* C17: 15000.00 / 36 / 7.86 gives the payment 469.08, a first row with
\* interest 98.25 and principal 370.83, exactly 36 rows, and a 36th-row
\* balance of 0.00.
C17_Example ==
    (pc = "returned" /\ Example36) =>
        /\ Len(schedule) = 36
        /\ \A k \in 1..35 : schedule[k].payment = 46908
        /\ schedule[1].interest = 9825
        /\ schedule[1].principal = 37083
        /\ schedule[36].balance = 0

C17_Witness ==
    /\ pc = "returned" /\ Example36
    /\ Len(schedule) = 36 /\ schedule[36].month = 36

\* C18: 1200.00 / 12 / 0 gives the payment 100.00 in each of rows 1 to 11,
\* a final-row payment equal to the balance left before it, and row payments
\* that add up to 1200.00.
C18_ZeroRateExample ==
    (pc = "returned" /\ Example12) =>
        /\ Len(schedule) = 12
        /\ \A k \in 1..11 : schedule[k].payment = 10000
        /\ schedule[12].payment = BalanceBefore(12)
        /\ SumField(schedule, "payment") = 120000

C18_Witness ==
    /\ pc = "returned" /\ Example12
    /\ Len(schedule) = 12 /\ schedule[11].balance = 10000

\* C19: every rounding of the engine is to the nearest cent with a half
\* cent going up: the zero-rate payment and each row's interest are the
\* half-up roundings of their exact values.  (Stated on the runs in which
\* every rounding has one outcome, where the values are those of the float
\* computation.)
C19_RoundHalfUp ==
    (Valid /\ ~tied /\ pc \in {"loop", "returned"}) =>
        /\ (annual_rate = 0 /\ Len(schedule) < months) =>
              payment = round_half_up(amount, months)
        /\ \A k \in 1..Len(schedule) :
              schedule[k].interest =
                  round_half_up(BalanceBefore(k) * monthly_rate(annual_rate)[1],
                                monthly_rate(annual_rate)[2])

\* C20: with months = 1 there is one row, the final one: its principal is
\* the amount, its payment the amount plus one month's rounded interest, and
\* its balance 0.
C20_SingleRow ==
    (pc = "returned" /\ months = 1) =>
        /\ Len(schedule) = 1
        /\ schedule[1].principal = amount
        /\ schedule[1].interest \in round2(amount * monthly_rate(annual_rate)[1],
                                            monthly_rate(annual_rate)[2])
        /\ schedule[1].payment = amount + schedule[1].interest
        /\ schedule[1].balance = 0

C20_Witness ==
    /\ pc = "returned" /\ months = 1 /\ Valid
    /\ Len(schedule) = 1
    /\ schedule[1].interest > 0
    /\ schedule[1].payment > amount

\* ----------------------------------------------------- placement properties
\* the center of the grid cell with a 1-based number
cell_center(index) ==
    <<cell_col(index) * cell_width_mm + cell_width_mm \div 2,
      flip(cell_row(index) * cell_height_mm + cell_height_mm \div 2)>>

\* C21: for carta and approvazione the seal image is drawn centred on the
\* center of grid cell 767 (row 30, column 16), the cell its comment names.
C21_SealAtCell767 ==
    (template_name \in {"carta", "approvazione"} /\ pc = "done" /\ ~fallback) =>
        \A st \in ImagesOn(result[1].stamps) :
            st.what = "seal.png" =>
                /\ st.at = cell_center(767)
                /\ 2 * st.off[1] = st.size[1] /\ 2 * st.off[2] = st.size[2]

\* ------------------------------------------------------ substitution properties
\* the values the list puts in for 'XXX', in the order of the list, from the
\* k-th pair on
RECURSIVE XXXValues(_, _)
XXXValues(list, k) ==
    IF k > Len(list) THEN <<>>
    ELSE (IF list[k][1] = XXX THEN <<list[k][2]>> ELSE <<>>) \o XXXValues(list, k + 1)

\* the pairs of the list for the other placeholders
RECURSIVE OtherPairs(_, _)
OtherPairs(list, k) ==
    IF k > Len(list) THEN <<>>
    ELSE (IF list[k][1] # XXX THEN <<list[k]>> ELSE <<>>) \o OtherPairs(list, k + 1)

\* the number of 'XXX' occurrences of a text in document order, counted from
\* position from as str.count counts them
RECURSIVE CountXXX(_, _)
CountXXX(text, from) ==
    IF Find(text, XXX, from) = 0 THEN 0
    ELSE 1 + CountXXX(text, Find(text, XXX, from) + Len(XXX))

\* the text from position from on with its k-th, k+1-th, ... 'XXX' occurrence
\* taken out and the k-th, k+1-th, ... value put in its place, all
\* occurrences being those of the text itself
RECURSIVE Filled(_, _, _, _)
Filled(text, values, k, from) ==
    IF k > Len(values) \/ Find(text, XXX, from) = 0
    THEN SubSeq(text, from, Len(text))
    ELSE SubSeq(text, from, Find(text, XXX, from) - 1) \o values[k]
         \o Filled(text, values, k + 1, Find(text, XXX, from) + Len(XXX))

\* none of the placeholder strings is in a value of the list
ValuesClean(list) ==
    \A k \in 1..Len(list) :
        \A old \in {XXX, DatePlaceholder, SignaturesPlaceholder, AmortizationPlaceholder} :
            Find(list[k][2], old, 1) = 0

\* no 'XXX' occurrence of the text has an 'X' right before or right after it
Isolated(text) ==
    \A i \in 1..Len(text) :
        OccursAt(text, XXX, i) =>
            /\ (i > 1 => text[i - 1] # "X")
            /\ (i + Len(XXX) <= Len(text) => text[i + Len(XXX)] # "X")

\* the text the list is to give: the values in the places of the first
\* 'XXX' occurrences, then the date and the signatures table in theirs
Expected(text, list) ==
    apply_replacements(Filled(text, XXXValues(list, 1), 1, 1), OtherPairs(list, 1), 1)

\* the replacement loop runs in this step
Substitutes == pc = "subst" /\ pc' = "render"

\* C22 as stated: for a template with at least as many 'XXX' occurrences as
\* the list has 'XXX' entries and values that contain no placeholder string,
\* the list fills the i-th 'XXX' occurrence of the template with the i-th
\* 'XXX' value and leaves the further occurrences as they are.
C22_FillsInOrder ==
    [][(/\ Substitutes
        /\ CountXXX(html, 1) >= Len(XXXValues(replacements(template_name), 1))
        /\ ValuesClean(replacements(template_name)))
       => html' = Expected(html, replacements(template_name))]_vars

\* C22: the same, for a template in which no 'XXX' occurrence has an 'X'
\* right before or right after it.
C22_FillsIsolated ==
    [][(/\ Substitutes
        /\ CountXXX(html, 1) >= Len(XXXValues(replacements(template_name), 1))
        /\ ValuesClean(replacements(template_name))
        /\ Isolated(html))
       => html' = Expected(html, replacements(template_name))]_vars

C22_Witness ==
    /\ pc = "render" /\ template_name = "approvazione"
    /\ data.name = <<"X">>
    /\ html = <<"X", "-", "1", ".", "0", "0", "-", "0", ".", "0", "0", "%", "-", "X", "X", "X">>

\* --------------------------------------------------------- closing properties
\* C23: for every valid input the total interest shown in the contratto
\* summary, the sum of the rows' payments less the loan amount, is the
\* total_interest the engine returns, the sum of the rows' interest.  (Stated
\* on the runs in which no rounding met an exact half cent.)
C23_SummaryInterest ==
    (/\ template_name = "contratto"
     /\ stage \in {"subst", "render", "overlay"}
     /\ Valid /\ ~tied)
    => /\ summary.overpayment = total_interest
       /\ total_interest = SumField(schedule, "interest")

\* C24: for every valid input and every month but the last the principal
\* component is no more than the balance before that month, so that the
\* balance less the principal is never below 0 and the clamp changes no
\* balance.  (Stated on the runs in which no rounding met an exact half cent.)
C24_ClampIdle ==
    (Valid /\ ~tied) =>
        \A k \in 1..Len(schedule) :
            k < months =>
                /\ schedule[k].principal <= BalanceBefore(k)
                /\ schedule[k].balance = BalanceBefore(k) - schedule[k].principal

\* C25: for garanzia, carta and approvazione the finished overlay has
\* exactly one page: all the stamps of the variant are on the base page with
\* index 0, and every base page with index >= 1 is written with no stamp.
C25_SingleOverlayPage ==
    (template_name \in {"garanzia", "carta", "approvazione"} /\ ~fallback) =>
        /\ pc \in {"merge", "done"} => Len(overlay_pages) = 1
        /\ pc = "done" =>
              /\ result[1].stamps = VariantStamps(template_name, pdf_pages)
              /\ \A k \in 2..pdf_pages : result[k].stamps = {}

C25_Witness ==
    /\ template_name = "carta" /\ pc = "done" /\ ~fallback
    /\ pdf_pages = 3 /\ Len(overlay_pages) = 1
    /\ Cardinality(ImagesOn(result[1].stamps)) = 4
    /\ result[2].stamps = {} /\ result[3].stamps = {}

\* C26: every grid cell number the drawing code starts from lies in
\* 1..875, and every point computed from a cell with its offsets, the point
\* of an image and the position of the page number, also moved by the shift
\* of drawString, lies on the page, 0..210 mm by 0..297 mm.
C26_AnchorsOnPage ==
    /\ \A st \in ImagesOn(AllDrawn) :
          /\ base_cell(template_name, st.what) \in 1..(columns * rows)
          /\ st.at[1] \in 0..units(page_width_mm)
          /\ st.at[2] \in 0..units(page_height_mm)
    /\ \A tx \in TextsOn(AllDrawn) :
          /\ page_number_cell \in 1..(columns * rows)
          /\ tx.at[1] \in 0..units(page_width_mm)
          /\ tx.at[2] \in 0..units(page_height_mm)
          \* a point is 25.4/72 mm, 3556/72 of a unit
          /\ 72 * tx.at[1] + 3556 * tx.shift[1] \in 0..(72 * units(page_width_mm))
          /\ 72 * tx.at[2] + 3556 * tx.shift[2] \in 0..(72 * units(page_height_mm))

C26_Witness ==
    /\ template_name = "contratto" /\ pc = "done" /\ ~fallback /\ pdf_pages = 2
    /\ \E tx \in TextsOn(result[2].stamps) : tx.at = <<14700, 594>>
    /\ \E st \in ImagesOn(result[2].stamps) : st.what = "logo.png" /\ st.at = <<23520, 36531>>
    /\ \E st \in ImagesOn(result[1].stamps) : st.what = "company.png" /\ st.at = <<1862, 37125>>

\* C27: generate_contratto_pdf and generate_carta_pdf never overwrite a
\* 'payment' the caller supplies; the key is filled in by monthly_payment
\* only when it is absent; and the rows of the schedule are computed from
\* amount, duration and tan alone, whatever data['payment'] holds.
C27_PaymentKept ==
    [][/\ "payment" \in data_keys => data'.payment = data.payment
       /\ ("payment" \notin data_keys /\ "payment" \in data_keys') =>
              /\ pc = "api" /\ template_name \in {"contratto", "carta"}
              /\ data'.payment \in monthly_payment(data.amount, data.duration, data.tan)
       /\ (pc = "call" /\ pc' = "loop") =>
              /\ amount = data.amount /\ months = data.duration /\ annual_rate = data.tan
              /\ payment' \in monthly_payment(data.amount, data.duration, data.tan)
       /\ (pc = "loop" /\ pc' = "loop" /\ Len(schedule') < months) =>
              schedule'[Len(schedule')].payment
                  \in monthly_payment(data.amount, data.duration, data.tan)]_vars

C27_Witness ==
    /\ template_name = "contratto" /\ pc = "returned"
    /\ "payment" \in data_keys /\ data.payment = 45
    /\ data.amount = 100 /\ Len(schedule) = 3
    /\ schedule[1].payment # data.payment

\* ------------------------------------------------------------ specification
Init ==
    /\ \/ (amount \in Amounts /\ months \in Terms /\ annual_rate \in AnnualRates)
       \/ \E e \in Examples : amount = e[1] /\ months = e[2] /\ annual_rate = e[3]
    /\ pc = "call"
    /\ exc = ""
    /\ payment = 0
    /\ balance = 0
    /\ total_interest = 0
    /\ schedule = <<>>
    /\ tied = FALSE
    /\ template_name = ""
    /\ data = NoData
    /\ data_keys = {}
    /\ files = {}
    /\ image_px = <<0, 0>>
    /\ stage = "schedule"
    /\ summary = NoSummary
    /\ html = <<>>
    /\ today = <<>>
    /\ OverlayIdle
    /\ GridIdle

Next == Enter \/ Row \/ Return

Spec == Init /\ [][Next]_vars

\* a document request: the variant, the caller's data and the files on disk
MarioRossi == <<"M", "a", "r", "i", "o", " ", "R", "o", "s", "s", "i">>

\* the dates a request is made on, dd/mm/YYYY
Dates == {<<"0", "5", "/", "1", "1", "/", "2", "0", "2", "6">>}

FullKeys == {"name", "amount", "duration", "tan", "taeg", "payment"}

DocInit ==
    /\ template_name \in Templates
    /\ \E gone \in SUBSET (Assets \cup {TemplateFile(template_name)}) :
          /\ Cardinality(gone) <= MaxMissing
          /\ files = (Assets \cup {TemplateFile(template_name)}) \ gone
    /\ image_px \in ImageSizes
    /\ IF template_name = "garanzia"
       THEN /\ data = [NoData EXCEPT !.name = MarioRossi]
            /\ data_keys = {"name"}
       ELSE /\ \E a \in DocAmounts, d \in DocTerms, t \in DocRates :
                  data = [NoData EXCEPT !.name = MarioRossi, !.amount = a,
                            !.duration = d, !.tan = t, !.taeg = t, !.payment = 45]
            /\ \E absent \in SUBSET {"payment", "taeg"} : data_keys = FullKeys \ absent
    /\ pc = "api"
    /\ stage = "api"
    /\ exc = ""
    /\ amount = 0
    /\ months = 0
    /\ annual_rate = 0
    /\ payment = 0
    /\ balance = 0
    /\ total_interest = 0
    /\ schedule = <<>>
    /\ tied = FALSE
    /\ summary = NoSummary
    /\ html = <<>>
    /\ today \in Dates
    /\ OverlayIdle
    /\ GridIdle

DocNext ==
    \/ generate_contratto_pdf
    \/ generate_garanzia_pdf
    \/ generate_carta_pdf
    \/ generate_approvazione_pdf
    \/ generate_pdf_with_images
    \/ Enter
    \/ Row
    \/ Return
    \/ build_table
    \/ substitute
    \/ render
    \/ overlay_open
    \/ overlay_draw
    \/ overlay_text
    \/ overlay_showPage
    \/ overlay_save
    \/ merge_page
    \/ write_final
    \/ library_error

DocSpec == DocInit /\ [][DocNext]_vars

\* the grid of the debug overlay, or a y coordinate to flip
GridInit ==
    /\ amount = 0
    /\ months = 0
    /\ annual_rate = 0
    /\ payment = 0
    /\ balance = 0
    /\ total_interest = 0
    /\ schedule = <<>>
    /\ tied = FALSE
    /\ exc = ""
    /\ template_name = ""
    /\ data = NoData
    /\ data_keys = {}
    /\ files = {}
    /\ image_px = <<0, 0>>
    /\ stage = "grid"
    /\ summary = NoSummary
    /\ html = <<>>
    /\ today = <<>>
    /\ OverlayIdle
    /\ grid_row = 0
    /\ grid_col = 0
    /\ cell_number = 1
    /\ grid_html = <<>>
    /\ flips = 0
    /\ \/ pc = "grid" /\ y_top = 0
       \/ pc = "flip" /\ y_top \in Ys
    /\ y_now = y_top

GridNext == grid_cell \/ grid_return \/ apply_flip

GridSpec == GridInit /\ [][GridNext]_vars

\* the texts of at most n pieces
RECURSIVE PieceTexts(_)
PieceTexts(n) ==
    IF n = 0 THEN {<<>>}
    ELSE {t \o p : t \in PieceTexts(n - 1), p \in {<<>>, XXX, <<"X">>, <<"-">>}}

\* the texts fix_html_layout hands over: the variant's own, with a mark more,
\* and for the variants with a short list every short text
SubstTexts(t) ==
    {fix_html_layout(t), fix_html_layout(t) \o <<"-">> \o XXX}
    \cup (IF t \in {"garanzia", "approvazione"} THEN PieceTexts(MaxPieces) ELSE {})

\* a request for which fix_html_layout has returned
SubstInit ==
    /\ template_name \in Templates
    /\ html \in SubstTexts(template_name)
    /\ today \in Dates
    /\ \E n \in {<<"A", "b">>, <<"X">>} :
          data = [NoData EXCEPT !.name = n, !.amount = 100, !.duration = 2, !.tan = 0,
                    !.taeg = 0, !.payment = 50,
                    !.signatures_table = IF template_name = "contratto"
                                         THEN "signatures" ELSE ""]
    /\ \E absent \in SUBSET {"tan"} :
          data_keys = (FullKeys \ absent)
                      \cup (IF template_name = "contratto" THEN {"signatures_table"} ELSE {})
    /\ files = Assets \cup {TemplateFile(template_name)}
    /\ image_px \in ImageSizes
    /\ pc = "gen"
    /\ stage = "api"
    /\ exc = ""
    /\ amount = 0
    /\ months = 0
    /\ annual_rate = 0
    /\ payment = 0
    /\ balance = 0
    /\ total_interest = 0
    /\ schedule = <<>>
    /\ tied = FALSE
    /\ summary = NoSummary
    /\ OverlayIdle
    /\ GridIdle

SubstNext ==
    \/ generate_pdf_with_images
    \/ Enter
    \/ Row
    \/ Return
    \/ build_table
    \/ substitute

SubstSpec == SubstInit /\ [][SubstNext]_vars

====
